---- MODULE Spec2Model ----
(***************************************************************************)
(* LatexEditor (src/ui-render.js): the section renderer, the edit/render   *)
(* mode switch, the debounced snapshot history with undo/redo, and the     *)
(* asynchronous file load, as one state machine.                           *)
(*                                                                         *)
(* The DOM under #latexContainer is the sequence of the rendered section   *)
(* blocks in document order (the order of                                  *)
(* querySelectorAll('.section-content')).  What a block is given once, by  *)
(* renderNode, is RenderForest(nodes); what changes afterwards is in dom:  *)
(* the innerHTML of its content region, its contentEditable flag and       *)
(* whether its content and nested container are hidden.  MathJax is an     *)
(* external collaborator: its typesetting calls are issued but change      *)
(* nothing modelled here.                                                  *)
(***************************************************************************)
EXTENDS Integers, Sequences, FiniteSets, TLC

VARIABLES
    history,        \* this.history: sequence of snapshots (1-based here)
    historyIndex,   \* this.historyIndex: 0-based index as in the code, -1 when empty
    rendering,      \* this.rendering
    debounceTimer,  \* TRUE iff the timeout held in this.debounceTimer is pending
    staleTimers,    \* pending timeouts of pushHistory that this.debounceTimer no
                    \* longer holds
    nodes,          \* this.nodes: the forest of the last parse (the empty forest
                    \* stands for the field being unset before the first render)
    dom,            \* per rendered block, in document order: html, editable,
                    \* collapsed (content region hidden), nestedHidden
    placeholder,    \* the container shows the "No Sections Found" screen
    statusMessage,  \* the message the last handler passed to showStatus, "" when
                    \* it passed none (the toast of an earlier handler is not kept)
    loadingOverlay, \* loadingOverlay has class 'active'
    undoDisabled,   \* undoBtn.disabled
    redoDisabled,   \* redoBtn.disabled
    loads,          \* loadFile calls suspended at `await file.text()`, oldest first;
                    \* each entry tells whether a call started later has already
                    \* rendered its document
    op,             \* the handler that ran last, with its outcome
    pushed,         \* what the pushHistory() call of the last handler met:
                    \* "none" (no call), "same", "append" or "truncate"
    track           \* observer of SpecTracked: the texts before the last undo and
                    \* the count of pushes and undos since the last load

vars == <<history, historyIndex, rendering, debounceTimer, staleTimers, nodes, dom,
          placeholder, statusMessage, loadingOverlay, undoDisabled, redoDisabled,
          loads, op, pushed, track>>

----------------------------------------------------------------------------
(* Bounds of the model.  With MaxHist = 2 a history can be pushed to,      *)
(* undone and pushed to again (a truncation); with MaxLoads = 1 loads do   *)
(* not overlap, and SpecOverlap lets MaxOverlap = 2 of them overlap.       *)

\* longest history explored (pushes that would exceed it are not taken)
MaxHist == 2
\* most loadFile calls suspended at the same time
MaxLoads == 1
\* most loadFile calls suspended at the same time in SpecOverlap
MaxOverlap == 2
\* most nodes in a forest handed to render() in SpecRender: five nodes give a
\* third top-level node with two children
MaxNodes == 5

----------------------------------------------------------------------------
(* Data *)

Leaf(level, content) == [level |-> level, content |-> content, children |-> <<>>]

\* parse results: no section; a level-0 container with one child section
EmptyForest == <<>>
Nested == << [level |-> 0, content |-> "<", children |-> << Leaf(1, "a") >>] >>
Forests == {EmptyForest, Nested}

\* the forests of exactly n nodes, each node of level 0 or 1: the first tree
\* takes k of the nodes, its root one of them
RECURSIVE ForestsOfSize(_)
ForestsOfSize(n) ==
    IF n = 0 THEN {<<>>}
    ELSE UNION { { << [level |-> l, content |-> "a", children |-> c] >> \o r :
                     l \in {0, 1}, c \in ForestsOfSize(k - 1), r \in ForestsOfSize(n - k) } :
                 k \in 1..n }

\* the non-empty parse results render() is applied to in SpecRender
ParsedForests == UNION { ForestsOfSize(n) : n \in 1..MaxNodes }

\* what the user can type into a content region
EditTexts == {"b"}

\* `content.innerHTML = node.content` followed by reading `e.innerHTML`: the
\* markup is parsed and serialised again, so a bare "<" comes back escaped.
InnerHTML(s) == IF s = "<" THEN "&lt;" ELSE s

\* what is handed to loadFile: a file that is neither text/* nor *.tex, or a
\* file that passes the type check
Files == {"badType", "tex"}

\* the limit of `text.length > 1_000_000`
MaxTextLength == 1000000

\* what `await file.text()` and the parser yield for a suspended loadFile: the
\* read is rejected, or it gives a text for which parseLatex is not defined,
\* throws, or returns a forest.  Texts are at the size limit, but for one just
\* over it (which would parse to sections if it were parsed).
Reads ==
    {[text |-> "rejects", length |-> 0, parser |-> "absent", forest |-> EmptyForest]}
    \cup {[text |-> "resolves", length |-> MaxTextLength, parser |-> p,
           forest |-> EmptyForest] : p \in {"absent", "throws"}}
    \cup {[text |-> "resolves", length |-> MaxTextLength, parser |-> "returns",
           forest |-> f] : f \in Forests}
    \cup {[text |-> "resolves", length |-> MaxTextLength + 1, parser |-> "returns",
           forest |-> Nested]}

StatusBadType == "Please upload a valid LaTeX (.tex) file"
StatusTooLarge == "File too large (max 1MB)"
StatusLoaded == "File loaded successfully"
StatusLoadError == "Error loading file. Please check console for details."
StatusUndo == "Undo successful"
StatusRedo == "Redo successful"
StatusSaved == "Document saved successfully"
StatusRenderOn == "Math rendering enabled"
StatusRenderOff == "Edit mode enabled"

----------------------------------------------------------------------------
(* Section renderer *)

RECURSIVE RenderNode(_, _)
RECURSIVE RenderChildren(_, _, _)

\* renderNode(node, number): the block of the node followed by the blocks of its
\* descendants.  path is the dotted number as a sequence of sibling indices.
RenderNode(node, path) ==
    << [path |-> path,
        number |-> IF node.level > 0 THEN path ELSE <<>>,
        html |-> InnerHTML(node.content),
        editable |-> TRUE,
        collapsed |-> FALSE,
        nestedHidden |-> FALSE] >>
    \o RenderChildren(node.children, path, 1)

\* a forEach that numbers the children by `index`, from 0
RenderChildrenZeroBased(children, path, i) ==
    IF i > Len(children) THEN <<>>
    ELSE RenderNode(children[i], Append(path, i - 1)) \o RenderChildren(children, path, i + 1)

\* node.children.forEach((child, index) => renderNode(child, `${number}.${index + 1}`))
RenderChildren(children, path, i) ==
    IF i > Len(children) THEN <<>>
    ELSE RenderNode(children[i], Append(path, i)) \o RenderChildren(children, path, i + 1)

\* the forEach of render(): top-level node i is numbered `${index + 1}`
RenderForest(forest) == RenderChildren(forest, <<>>, 1)

\* the part of the rendered blocks that handlers change later
Live(blocks) ==
    [i \in 1..Len(blocks) |->
        [html |-> blocks[i].html, editable |-> blocks[i].editable,
         collapsed |-> blocks[i].collapsed, nestedHidden |-> blocks[i].nestedHidden]]

\* Array.from(querySelectorAll('.section-content')).map(e => e.innerHTML)
Snapshot(d) == [i \in 1..Len(d) |-> d[i].html]

IsPrefix(p, q) == Len(p) <= Len(q) /\ SubSeq(q, 1, Len(p)) = p

\* the header of block i is on screen unless the nested container of an
\* enclosing block has display: none
HeaderVisible(blocks, d, i) ==
    \A j \in 1..Len(d) :
        (j # i /\ IsPrefix(blocks[j].path, blocks[i].path)) => ~d[j].nestedHidden

\* its content region is on screen unless, also, it has display: none itself
Visible(blocks, d, i) == ~d[i].collapsed /\ HeaderVisible(blocks, d, i)

----------------------------------------------------------------------------
(* History engine *)

\* JSON.stringify(a) === JSON.stringify(b) on arrays of strings: the encoding
\* is injective on them, so the comparison is deep equality
JsonEqual(a, b) == a = b

\* updateButtonStates()
UndoBtnDisabled(h, idx) == idx <= 0
RedoBtnDisabled(h, idx) == idx >= Len(h) - 1

\* which branch a pushHistory() call takes in history h at index idx
PushKind(h, idx, snapshot) ==
    IF idx >= 0 /\ snapshot = h[idx + 1] THEN "same"
    ELSE IF idx < Len(h) - 1 THEN "truncate"
    ELSE "append"

\* a push that adds an entry leaves idx + 2 entries: the model follows it up to
\* MaxHist entries
WithinBound(h, idx, snapshot) ==
    PushKind(h, idx, snapshot) = "same" \/ idx + 2 <= MaxHist

\* pushHistory without `this.historyIndex++`
PushHistoryNoIncrement(h, idx, snapshot, btn) ==
    IF idx >= 0 /\ JsonEqual(snapshot, h[idx + 1])
    THEN [history |-> h, historyIndex |-> idx, undo |-> btn[1], redo |-> btn[2]]
    ELSE LET h2 == Append(SubSeq(h, 1, idx + 1), snapshot)
         IN [history |-> h2, historyIndex |-> idx,
             undo |-> UndoBtnDisabled(h2, idx), redo |-> RedoBtnDisabled(h2, idx)]

\* pushHistory without the final updateButtonStates()
PushHistoryStaleButtons(h, idx, snapshot, btn) ==
    IF idx >= 0 /\ JsonEqual(snapshot, h[idx + 1])
    THEN [history |-> h, historyIndex |-> idx, undo |-> btn[1], redo |-> btn[2]]
    ELSE [history |-> Append(SubSeq(h, 1, idx + 1), snapshot), historyIndex |-> idx + 1,
          undo |-> btn[1], redo |-> btn[2]]

\* pushHistory without `this.history.slice(0, this.historyIndex + 1)`
PushHistoryNoTruncate(h, idx, snapshot, btn) ==
    IF idx >= 0 /\ JsonEqual(snapshot, h[idx + 1])
    THEN [history |-> h, historyIndex |-> idx, undo |-> btn[1], redo |-> btn[2]]
    ELSE LET h2 == Append(h, snapshot)
             idx2 == idx + 1
         IN [history |-> h2, historyIndex |-> idx2,
             undo |-> UndoBtnDisabled(h2, idx2), redo |-> RedoBtnDisabled(h2, idx2)]

\* pushHistory without the comparison with the current entry
PushHistoryNoDedup(h, idx, snapshot, btn) ==
    LET h2 == Append(SubSeq(h, 1, idx + 1), snapshot)
        idx2 == idx + 1
    IN [history |-> h2, historyIndex |-> idx2,
        undo |-> UndoBtnDisabled(h2, idx2), redo |-> RedoBtnDisabled(h2, idx2)]

\* pushHistory() with the snapshot it reads from the DOM; btn is the pair of
\* button states before the call, kept when the push returns early
PushHistory(h, idx, snapshot, btn) ==
    IF idx >= 0 /\ JsonEqual(snapshot, h[idx + 1])
    THEN [history |-> h, historyIndex |-> idx, undo |-> btn[1], redo |-> btn[2]]
    ELSE LET h2 == Append(SubSeq(h, 1, idx + 1), snapshot)
             idx2 == idx + 1
         IN [history |-> h2, historyIndex |-> idx2,
             undo |-> UndoBtnDisabled(h2, idx2), redo |-> RedoBtnDisabled(h2, idx2)]

\* a restore that skips the regions the snapshot has no element for
RestoreDomKeepMissing(d, snapshot) ==
    [i \in 1..Len(d) |->
        [d[i] EXCEPT !.html = IF i <= Len(snapshot) THEN InnerHTML(snapshot[i])
                              ELSE d[i].html]]

\* the forEach of restoreHistory(): e.innerHTML = snapshot[i] || ''
RestoreDom(d, snapshot) ==
    [i \in 1..Len(d) |->
        [d[i] EXCEPT !.html = IF i <= Len(snapshot) THEN InnerHTML(snapshot[i]) ELSE ""]]

----------------------------------------------------------------------------
(* Initial state: constructor() and init() *)

NoTrack == [before |-> <<>>, pair |-> FALSE, phase |-> "none", c0 |-> 0, n |-> 0, k |-> 0]

Init ==
    /\ history = <<>>
    /\ historyIndex = -1
    /\ rendering = FALSE
    /\ debounceTimer = FALSE
    /\ staleTimers = 0
    /\ nodes = <<>>
    /\ dom = <<>>
    /\ placeholder = FALSE
    /\ statusMessage = ""
    /\ loadingOverlay = FALSE
    /\ undoDisabled = UndoBtnDisabled(<<>>, -1)
    /\ redoDisabled = RedoBtnDisabled(<<>>, -1)
    /\ loads = <<>>
    /\ op = "init"
    /\ pushed = "none"
    /\ track = NoTrack

----------------------------------------------------------------------------
(* Handlers *)

\* loadFile up to its first suspension: the type check, then showLoading(true)
\* and `await file.text()`; the model follows up to `most` suspended calls
LoadStartUpTo(file, most) ==
    /\ UNCHANGED <<history, historyIndex, rendering, debounceTimer, staleTimers, nodes,
                   dom, placeholder, undoDisabled, redoDisabled>>
    /\ pushed' = "none"
    /\ IF file = "badType"
       THEN /\ statusMessage' = StatusBadType
            /\ UNCHANGED <<loadingOverlay, loads>>
            /\ op' = "loadBadType"
       ELSE /\ Len(loads) < most
            /\ loadingOverlay' = TRUE
            /\ loads' = Append(loads, FALSE)
            /\ statusMessage' = ""
            /\ op' = "loadStart"

LoadStart(file) == LoadStartUpTo(file, MaxLoads)

\* the size check with one zero too many in the limit
TooLargeTenfold(read) == read.length > 10 * MaxTextLength

\* `text.length > 1_000_000`
TooLarge(read) == read.length > MaxTextLength

\* a parser call wrapped so that an exception gives the empty forest
ParseLatexDegrades(read) ==
    IF read.parser = "returns"
    THEN [threw |-> FALSE, nodes |-> read.forest]
    ELSE [threw |-> FALSE, nodes |-> EmptyForest]

\* lines 87-91: parseLatex(text) when it is a function, [] otherwise; threw
\* tells that the call raised, which leaves the try block
ParseLatex(read) ==
    CASE read.parser = "absent" -> [threw |-> FALSE, nodes |-> EmptyForest]
      [] read.parser = "throws" -> [threw |-> TRUE, nodes |-> EmptyForest]
      [] OTHER -> [threw |-> FALSE, nodes |-> read.forest]

\* render() followed by pushHistory() and the success message
RenderAndPush(forest) ==
    LET d == Live(RenderForest(forest))
        \* render() returns before updateButtonStates() when there is no node
        btn == IF Len(forest) = 0
               THEN <<undoDisabled, redoDisabled>>
               ELSE <<UndoBtnDisabled(history, historyIndex),
                      RedoBtnDisabled(history, historyIndex)>>
        p == PushHistory(history, historyIndex, Snapshot(d), btn)
    IN /\ WithinBound(history, historyIndex, Snapshot(d))
       /\ nodes' = forest
       /\ dom' = d
       /\ placeholder' = (Len(forest) = 0)
       /\ history' = p.history
       /\ historyIndex' = p.historyIndex
       /\ undoDisabled' = p.undo
       /\ redoDisabled' = p.redo
       /\ pushed' = PushKind(history, historyIndex, Snapshot(d))
       /\ statusMessage' = StatusLoaded

\* the catch block, and the early return of the size check: a message, and
\* nothing else is touched
LoadAborts(message) ==
    /\ statusMessage' = message
    /\ pushed' = "none"
    /\ UNCHANGED <<history, historyIndex, nodes, dom, placeholder, undoDisabled,
                   redoDisabled>>

\* the name under which op records a resumed load: by what was read
LoadLabel(read) ==
    IF read.text = "rejects" THEN "loadReadError"
    ELSE IF read.length > MaxTextLength THEN "loadTooLarge"
    ELSE IF read.parser = "absent" THEN "loadParserAbsent"
    ELSE IF read.parser = "throws" THEN "loadParserThrows"
    ELSE "loadOk"

\* loadFile from the point where `await file.text()` settles, for the i-th
\* suspended call; the finally block hides the overlay on every path
LoadResume(i, read) ==
    /\ i \in 1..Len(loads)
    /\ loads' = [j \in 1..(Len(loads) - 1) |->
                    IF j < i THEN loads[j] \/ LoadLabel(read) \in {"loadOk", "loadParserAbsent"}
                    ELSE loads[j + 1]]
    /\ loadingOverlay' = FALSE
    /\ UNCHANGED <<rendering, debounceTimer, staleTimers>>
    /\ op' = LoadLabel(read)
    /\ IF read.text = "rejects" THEN LoadAborts(StatusLoadError)
       ELSE IF TooLarge(read) THEN LoadAborts(StatusTooLarge)
       ELSE IF ParseLatex(read).threw THEN LoadAborts(StatusLoadError)
       ELSE RenderAndPush(ParseLatex(read).nodes)

\* an 'input' listener that starts its timeout without clearTimeout(): the
\* timeout the field held stays pending
ClearTimeoutSkipped(held, stale) == stale + (IF held THEN 1 ELSE 0)

\* clearTimeout(this.debounceTimer) before the field is overwritten: the timeout
\* the field held (held tells whether it is pending) is cancelled, so the
\* pending timeouts the field does not hold are as many as before
ClearTimeout(held, stale) == stale

\* the 'input' listener of a content region: restart the debounce timer.  The
\* user can only type into a region that is editable and on screen.
Edit(i, text) ==
    /\ i \in 1..Len(dom)
    /\ dom[i].editable
    /\ Visible(RenderForest(nodes), dom, i)
    /\ text # dom[i].html
    /\ dom' = [dom EXCEPT ![i].html = text]
    /\ staleTimers' = ClearTimeout(debounceTimer, staleTimers)
    /\ debounceTimer' = TRUE
    /\ statusMessage' = ""
    /\ op' = "edit"
    /\ pushed' = "none"
    /\ UNCHANGED <<history, historyIndex, rendering, nodes, placeholder,
                   loadingOverlay, undoDisabled, redoDisabled, loads>>

\* a timeout set as setTimeout(this.pushHistory, 500): the callback runs without
\* its receiver and throws before it reads or writes anything
TimerFireUnbound ==
    /\ debounceTimer \/ staleTimers > 0
    /\ IF staleTimers > 0
       THEN staleTimers' = staleTimers - 1 /\ UNCHANGED debounceTimer
       ELSE debounceTimer' = FALSE /\ UNCHANGED staleTimers
    /\ pushed' = "none"
    /\ statusMessage' = ""
    /\ op' = "timerFire"
    /\ UNCHANGED <<history, historyIndex, undoDisabled, redoDisabled, rendering, nodes,
                   dom, placeholder, loadingOverlay, loads>>

\* a timeout of 500 ms expires: () => this.pushHistory().  Timeouts of equal
\* delay expire in the order they were set, so one the field no longer holds
\* goes before the one it holds.
TimerFire ==
    /\ debounceTimer \/ staleTimers > 0
    /\ LET p == PushHistory(history, historyIndex, Snapshot(dom),
                            <<undoDisabled, redoDisabled>>)
       IN /\ WithinBound(history, historyIndex, Snapshot(dom))
          /\ history' = p.history
          /\ historyIndex' = p.historyIndex
          /\ undoDisabled' = p.undo
          /\ redoDisabled' = p.redo
    /\ pushed' = PushKind(history, historyIndex, Snapshot(dom))
    /\ IF staleTimers > 0
       THEN staleTimers' = staleTimers - 1 /\ UNCHANGED debounceTimer
       ELSE debounceTimer' = FALSE /\ UNCHANGED staleTimers
    /\ statusMessage' = ""
    /\ op' = "timerFire"
    /\ UNCHANGED <<rendering, nodes, dom, placeholder, loadingOverlay, loads>>

\* restoreHistory() at index idx
RestoreHistory(idx) ==
    /\ dom' = RestoreDom(dom, history[idx + 1])
    /\ undoDisabled' = UndoBtnDisabled(history, idx)
    /\ redoDisabled' = RedoBtnDisabled(history, idx)

\* an undo guard that stops one entry early
CanUndoAboveOne(idx) == idx > 1

\* `this.historyIndex > 0`
CanUndo(idx) == idx > 0

\* `this.historyIndex < this.history.length - 1`
CanRedo(h, idx) == idx < Len(h) - 1

\* undo(), from the button or Ctrl+Z
Undo ==
    /\ IF CanUndo(historyIndex)
       THEN /\ historyIndex' = historyIndex - 1
            /\ RestoreHistory(historyIndex - 1)
            /\ statusMessage' = StatusUndo
            /\ op' = "undo"
       ELSE /\ UNCHANGED <<historyIndex, dom, undoDisabled, redoDisabled>>
            /\ statusMessage' = ""
            /\ op' = "undoNoop"
    /\ pushed' = "none"
    /\ UNCHANGED <<history, rendering, debounceTimer, staleTimers, nodes, placeholder,
                   loadingOverlay, loads>>

\* redo(), from the button, Ctrl+Y or Ctrl+Shift+Z
Redo ==
    /\ IF CanRedo(history, historyIndex)
       THEN /\ historyIndex' = historyIndex + 1
            /\ RestoreHistory(historyIndex + 1)
            /\ statusMessage' = StatusRedo
            /\ op' = "redo"
       ELSE /\ UNCHANGED <<historyIndex, dom, undoDisabled, redoDisabled>>
            /\ statusMessage' = ""
            /\ op' = "redoNoop"
    /\ pushed' = "none"
    /\ UNCHANGED <<history, rendering, debounceTimer, staleTimers, nodes, placeholder,
                   loadingOverlay, loads>>

\* a mode switch that also empties the regions it makes editable again
ContentEditableClearing(d, flag) ==
    [i \in 1..Len(d) |->
        [d[i] EXCEPT !.editable = flag, !.html = IF flag THEN "" ELSE d[i].html]]

\* the forEach of toggleRender(): editor.contentEditable = !this.rendering on
\* every content region
ContentEditable(d, flag) ==
    [i \in 1..Len(d) |-> [d[i] EXCEPT !.editable = flag]]

\* toggleRender()
ToggleRender ==
    /\ rendering' = ~rendering
    /\ dom' = ContentEditable(dom, ~rendering')
    /\ statusMessage' = IF rendering' THEN StatusRenderOn ELSE StatusRenderOff
    /\ op' = "toggleRender"
    /\ pushed' = "none"
    /\ UNCHANGED <<history, historyIndex, debounceTimer, staleTimers, nodes, placeholder,
                   loadingOverlay, undoDisabled, redoDisabled, loads>>

\* a toggleVisibility that hides the content region and leaves the nested
\* container on screen
ToggleBlockContentOnly(b) ==
    LET isVisible == ~b.collapsed
    IN [b EXCEPT !.collapsed = isVisible]

\* the body of toggleVisibility: isVisible is read from the display of the
\* content region, and the content region and the nested container are both
\* hidden when it was visible, both shown otherwise
ToggleBlock(b) ==
    LET isVisible == ~b.collapsed
    IN [b EXCEPT !.collapsed = isVisible, !.nestedHidden = isVisible]

\* toggleVisibility of the i-th block, by a click or Enter/Space on its header;
\* the header is on screen unless an enclosing block is collapsed
ToggleVisibility(i) ==
    /\ i \in 1..Len(dom)
    /\ HeaderVisible(RenderForest(nodes), dom, i)
    /\ dom' = [dom EXCEPT ![i] = ToggleBlock(dom[i])]
    /\ statusMessage' = ""
    /\ op' = "toggleVisibility"
    /\ pushed' = "none"
    /\ UNCHANGED <<history, historyIndex, rendering, debounceTimer, staleTimers, nodes,
                   placeholder, loadingOverlay, undoDisabled, redoDisabled, loads>>

\* save()
Save ==
    /\ statusMessage' = StatusSaved
    /\ op' = "save"
    /\ pushed' = "none"
    /\ UNCHANGED <<history, historyIndex, rendering, debounceTimer, staleTimers, nodes,
                   dom, placeholder, loadingOverlay, undoDisabled, redoDisabled, loads>>

----------------------------------------------------------------------------
(* The observer of SpecTracked.  It reads the step the handler takes and     *)
(* changes nothing the handlers read.                                        *)

\* the texts of all regions just before an undo that took effect, kept over a
\* redo that follows it at once (pair), dropped by any other handler
TrackUndoRedo ==
    IF op' = "undo" THEN [before |-> Snapshot(dom), pair |-> FALSE]
    ELSE IF op' = "redo" /\ op = "undo" THEN [before |-> track.before, pair |-> TRUE]
    ELSE [before |-> <<>>, pair |-> FALSE]

\* the scenario "load, n pushes of new snapshots, k <= n undos, one more push":
\* c0 is the index the load left, phase tells how far the scenario has come
TrackScenario ==
    LET grew == pushed' \in {"append", "truncate"}
        t == track
        off == [phase |-> "none", c0 |-> 0, n |-> 0, k |-> 0]
    IN CASE op' \in {"loadOk", "loadParserAbsent"} /\ pushed' # "none" ->
              [phase |-> "edits", c0 |-> historyIndex', n |-> 0, k |-> 0]
         [] op' = "timerFire" /\ grew /\ t.phase = "edits" ->
              [phase |-> "edits", c0 |-> t.c0, n |-> t.n + 1, k |-> 0]
         [] op' = "timerFire" /\ grew /\ t.phase = "undos" ->
              [phase |-> "done", c0 |-> t.c0, n |-> t.n, k |-> t.k]
         [] op' = "timerFire" /\ ~grew /\ t.phase \in {"edits", "undos"} ->
              [phase |-> t.phase, c0 |-> t.c0, n |-> t.n, k |-> t.k]
         [] op' = "undo" /\ t.phase \in {"edits", "undos"} /\ t.k < t.n ->
              [phase |-> "undos", c0 |-> t.c0, n |-> t.n, k |-> t.k + 1]
         [] op' \in {"edit", "undoNoop", "redoNoop"} /\ t.phase \in {"edits", "undos"} ->
              [phase |-> t.phase, c0 |-> t.c0, n |-> t.n, k |-> t.k]
         [] OTHER -> off

Tracking ==
    track' = [before |-> TrackUndoRedo.before, pair |-> TrackUndoRedo.pair,
              phase |-> TrackScenario.phase, c0 |-> TrackScenario.c0,
              n |-> TrackScenario.n, k |-> TrackScenario.k]

----------------------------------------------------------------------------
(* Specifications *)

Next ==
    \/ \E file \in Files : LoadStart(file) /\ UNCHANGED track
    \/ \E i \in 1..MaxLoads, read \in Reads : LoadResume(i, read) /\ UNCHANGED track
    \/ \E i \in 1..Len(dom), text \in EditTexts : Edit(i, text) /\ UNCHANGED track
    \/ TimerFire /\ UNCHANGED track
    \/ Undo /\ UNCHANGED track
    \/ Redo /\ UNCHANGED track
    \/ ToggleRender /\ UNCHANGED track
    \/ \E i \in 1..Len(dom) : ToggleVisibility(i) /\ UNCHANGED track
    \/ Save /\ UNCHANGED track

Spec == Init /\ [][Next]_vars

\* the same handlers, watched by the observer
NextTracked ==
    \/ \E file \in Files : LoadStart(file) /\ Tracking
    \/ \E i \in 1..MaxLoads, read \in Reads : LoadResume(i, read) /\ Tracking
    \/ \E i \in 1..Len(dom), text \in EditTexts : Edit(i, text) /\ Tracking
    \/ TimerFire /\ Tracking
    \/ Undo /\ Tracking
    \/ Redo /\ Tracking
    \/ ToggleRender /\ Tracking
    \/ \E i \in 1..Len(dom) : ToggleVisibility(i) /\ Tracking
    \/ Save /\ Tracking

SpecTracked == Init /\ [][NextTracked]_vars

\* the handlers with the event loop running: a pending timeout that stays due
\* does expire.  Here the user picks the next file once the load of the
\* previous one has ended.
NextLive ==
    \/ \E file \in Files :
          (file = "tex" => loads = <<>>) /\ LoadStart(file) /\ UNCHANGED track
    \/ \E i \in 1..MaxLoads, read \in Reads : LoadResume(i, read) /\ UNCHANGED track
    \/ \E i \in 1..Len(dom), text \in EditTexts : Edit(i, text) /\ UNCHANGED track
    \/ TimerFire /\ UNCHANGED track
    \/ Undo /\ UNCHANGED track
    \/ Redo /\ UNCHANGED track
    \/ ToggleRender /\ UNCHANGED track
    \/ \E i \in 1..Len(dom) : ToggleVisibility(i) /\ UNCHANGED track
    \/ Save /\ UNCHANGED track

SpecLive == Init /\ [][NextLive]_vars /\ WF_vars(TimerFire /\ UNCHANGED track)

\* the file loads and the mode switch alone, with up to MaxOverlap loads
\* suspended together
NextOverlap ==
    \/ \E file \in Files : LoadStartUpTo(file, MaxOverlap) /\ UNCHANGED track
    \/ \E i \in 1..MaxOverlap, read \in Reads : LoadResume(i, read) /\ UNCHANGED track
    \/ ToggleRender /\ UNCHANGED track

SpecOverlap == Init /\ [][NextOverlap]_vars

\* render() alone, applied once to a parse result of up to MaxNodes nodes
InitRender ==
    /\ nodes \in ParsedForests
    /\ history = <<>>
    /\ historyIndex = -1
    /\ rendering = FALSE
    /\ debounceTimer = FALSE
    /\ staleTimers = 0
    /\ dom = <<>>
    /\ placeholder = FALSE
    /\ statusMessage = ""
    /\ loadingOverlay = FALSE
    /\ undoDisabled = UndoBtnDisabled(<<>>, -1)
    /\ redoDisabled = RedoBtnDisabled(<<>>, -1)
    /\ loads = <<>>
    /\ op = "init"
    /\ pushed = "none"
    /\ track = NoTrack

\* render() with this.nodes not empty: a block per node, then updateButtonStates()
Render ==
    /\ op = "init"
    /\ Len(nodes) > 0
    /\ dom' = Live(RenderForest(nodes))
    /\ placeholder' = FALSE
    /\ undoDisabled' = UndoBtnDisabled(history, historyIndex)
    /\ redoDisabled' = RedoBtnDisabled(history, historyIndex)
    /\ op' = "render"
    /\ UNCHANGED <<history, historyIndex, rendering, debounceTimer, staleTimers, nodes,
                   statusMessage, loadingOverlay, loads, pushed, track>>

NextRender == Render

SpecRender == InitRender /\ [][NextRender]_vars

----------------------------------------------------------------------------
(* Properties *)

\* the handlers that call pushHistory(), and the loads that report success
PushOps == {"timerFire", "loadOk", "loadParserAbsent"}
LoadedOps == {"loadOk", "loadParserAbsent"}

\* C1: in every reachable state the cursor is -1 exactly when the history is
\* empty, and otherwise lies between 0 and the index of the last entry.
C1_CursorInRange ==
    /\ (historyIndex = -1) <=> (history = <<>>)
    /\ history # <<>> => (0 <= historyIndex /\ historyIndex <= Len(history) - 1)

\* C1 witness: after an undo the cursor is strictly before the last entry
C1_Witness == op = "undo" /\ historyIndex = 0 /\ Len(history) = 2

\* C2: right after any load that reports success the history holds exactly one
\* snapshot, that of the content just rendered, and the cursor is 0.
C2_LoadResetsHistory ==
    op \in LoadedOps =>
        (Len(history) = 1 /\ historyIndex = 0 /\ history[1] = Snapshot(dom))

\* C3: an undo that took effect, followed at once by a redo, leaves the text of
\* every content region as it was just before the undo.
C3_UndoRedoRestores ==
    (op = "redo" /\ track.pair) => Snapshot(dom) = track.before

\* C4: a pushHistory() call made with the cursor before the last entry and a
\* snapshot that differs from the current entry keeps the entries up to the
\* cursor, appends the snapshot, leaves the cursor on it and redo unavailable.
C4_BranchTruncation ==
    [][ (/\ op' \in PushOps
         /\ historyIndex < Len(history) - 1
         /\ ~(historyIndex >= 0 /\ Snapshot(dom') = history[historyIndex + 1]))
        => (/\ history' = Append(SubSeq(history, 1, historyIndex + 1), Snapshot(dom'))
            /\ historyIndex' = Len(history') - 1
            /\ redoDisabled') ]_vars

\* C4 witness: the debounce timer has fired into a truncating push
C4_Witness == op = "timerFire" /\ pushed = "truncate"

C6_IdempotentPush ==
    [][ (/\ op' \in PushOps
         /\ historyIndex >= 0
         /\ Snapshot(dom') = history[historyIndex + 1])
        => (history' = history /\ historyIndex' = historyIndex) ]_vars

\* C6 witness: the debounce timer has fired on content equal to the current entry
C6_Witness == op = "timerFire" /\ pushed = "same" /\ Len(history) >= 1

\* C7: once a load has succeeded, the snapshot of the content it rendered is an
\* entry of the history at or before the cursor, until the next load.
C7_LoadSnapshotKept ==
    history # <<>> =>
        \E j \in 1..(historyIndex + 1) :
            history[j] = Snapshot(Live(RenderForest(nodes)))

C9_EmptyLoadDisablesHistory ==
    (op \in LoadedOps /\ nodes = <<>>) =>
        (placeholder /\ undoDisabled /\ redoDisabled /\ Len(history) <= 1)

\* C10: a load rejected for its type or for a text longer than 1,000,000
\* characters changes neither the rendered tree, the region texts, the history,
\* the cursor nor the mode, and shows a message.
C10_RejectedLoad ==
    [][ /\ op' = "loadBadType" =>
              (/\ UNCHANGED <<nodes, dom, placeholder, history, historyIndex, rendering>>
               /\ statusMessage' = StatusBadType)
        /\ op' = "loadTooLarge" =>
              (/\ UNCHANGED <<nodes, dom, placeholder, history, historyIndex, rendering>>
               /\ statusMessage' = StatusTooLarge) ]_vars

\* C10 witness: an oversized text has been rejected while an edited document
\* with two history entries was shown
C10_Witness == op = "loadTooLarge" /\ Len(dom) = 2 /\ Len(history) = 2

\* C11: undo() with the cursor at or below 0 and redo() with the cursor at or
\* after the last entry change neither the entries, the cursor nor the text of
\* any content region; otherwise undo moves the cursor back by exactly one and
\* redo forward by exactly one, and the entries stay as they are.
C11_UndoRedoGuards ==
    [][ /\ op' \in {"undo", "undoNoop"} =>
              IF historyIndex <= 0
              THEN UNCHANGED <<history, historyIndex>> /\ Snapshot(dom') = Snapshot(dom)
              ELSE historyIndex' = historyIndex - 1 /\ history' = history
        /\ op' \in {"redo", "redoNoop"} =>
              IF historyIndex >= Len(history) - 1
              THEN UNCHANGED <<history, historyIndex>> /\ Snapshot(dom') = Snapshot(dom)
              ELSE historyIndex' = historyIndex + 1 /\ history' = history ]_vars

\* C11 witness: undo was pressed on the first entry while the regions held text
\* typed since the last snapshot
C11_Witness ==
    /\ op = "undoNoop" /\ historyIndex = 0 /\ debounceTimer
    /\ Snapshot(dom) # history[1]

\* C12: at most one timeout of pushHistory is pending, the one the field holds;
\* an edit leaves that timeout pending and adds no entry; and when the timeout
\* expires right after a run of edits it is no longer pending and the history
\* is either unchanged or has gained exactly one entry at the cursor, the
\* snapshot of the content the last edit left.
C12_DebounceCoalescing ==
    [][ /\ staleTimers' = 0
        /\ op' = "edit" => (debounceTimer' /\ UNCHANGED <<history, historyIndex>>)
        /\ (op = "edit" /\ op' = "timerFire") =>
              /\ ~debounceTimer'
              /\ \/ UNCHANGED <<history, historyIndex>>
                 \/ /\ history' = Append(SubSeq(history, 1, historyIndex + 1),
                                          Snapshot(dom))
                    /\ historyIndex' = historyIndex + 1 ]_vars

\* C12 witness: both regions were edited after the load and one expiry has
\* pushed the single snapshot of the content after the second edit
C12_Witness ==
    /\ op = "timerFire" /\ pushed = "append"
    /\ history = << <<"&lt;", "a">>, <<"b", "b">> >>

\* C13: a collapse toggle flips the hidden state of one block's content region,
\* leaves that block's nested container hidden exactly when its content region
\* is, and changes neither another block, the entries, the cursor, the undo and
\* redo buttons, the mode, the text of any region nor the pending timeouts.
C13_CollapseFrame ==
    [][ op' = "toggleVisibility" =>
          /\ UNCHANGED <<history, historyIndex, undoDisabled, redoDisabled, rendering,
                         debounceTimer, staleTimers>>
          /\ Len(dom') = Len(dom)
          /\ Snapshot(dom') = Snapshot(dom)
          /\ \E i \in 1..Len(dom) :
                /\ dom'[i].collapsed = ~dom[i].collapsed
                /\ \A j \in 1..Len(dom) : j # i => dom'[j] = dom[j]
          /\ \A i \in 1..Len(dom) : dom'[i].nestedHidden = dom'[i].collapsed ]_vars

\* C13 witness: the inner block was collapsed while a debounce timer was pending
C13_Witness ==
    /\ op = "toggleVisibility" /\ Len(dom) = 2
    /\ dom[2].collapsed /\ ~dom[1].collapsed /\ debounceTimer

\* C14: toggleRender() flips the mode and changes neither the entries, the
\* cursor nor the text of any content region.
C14_ToggleFrame ==
    [][ op' = "toggleRender" =>
          /\ rendering' = ~rendering
          /\ UNCHANGED <<history, historyIndex>>
          /\ Snapshot(dom') = Snapshot(dom) ]_vars

\* C14 witness: the mode was switched back to Edit while a debounce timer was
\* pending for text not yet in the history
C14_Witness ==
    /\ op = "toggleRender" /\ ~rendering /\ debounceTimer /\ Len(dom) = 2
    /\ Snapshot(dom) # history[historyIndex + 1]

\* the positions of the nodes of a forest, as paths of 1-based sibling indices
RECURSIVE PathsOf(_)
PathsOf(forest) ==
    UNION { {<<i>>} \cup { <<i>> \o q : q \in PathsOf(forest[i].children) } :
            i \in 1..Len(forest) }

\* the node of a forest at a position
RECURSIVE NodeAt(_, _)
NodeAt(forest, p) ==
    IF Len(p) = 1 THEN forest[p[1]] ELSE NodeAt(forest[p[1]].children, Tail(p))

\* document order of positions: a node before its descendants, siblings by index
Before(p, q) ==
    /\ p # q
    /\ \/ IsPrefix(p, q)
       \/ \E k \in 1..Len(p) :
             /\ k <= Len(q)
             /\ SubSeq(p, 1, k - 1) = SubSeq(q, 1, k - 1)
             /\ p[k] < q[k]

\* the place in document order of the node at position p
Rank(forest, p) == 1 + Cardinality({q \in PathsOf(forest) : Before(q, p)})

\* C15: render of a non-empty forest gives one block per node in document
\* order, the i-th top-level block being that of the i-th top-level node; the
\* number shown by a block is the path of 1-based sibling indices of its node
\* when the node's level is above 0 and empty when the level is 0, whatever
\* the levels of its ancestors.
C15_Numbering ==
    op = "render" =>
        LET blocks == RenderForest(nodes)
            top == SelectSeq(blocks, LAMBDA b : Len(b.path) = 1)
        IN /\ Len(dom) = Len(blocks)
           /\ Len(blocks) = Cardinality(PathsOf(nodes))
           /\ Len(top) = Len(nodes)
           /\ \A i \in 1..Len(nodes) : top[i] = blocks[Rank(nodes, <<i>>)]
           /\ \A p \in PathsOf(nodes) :
                 blocks[Rank(nodes, p)].number =
                     IF NodeAt(nodes, p).level > 0 THEN p ELSE <<>>

\* C15 witness: the third top-level node, of level 0, shows no number and its
\* second child shows 3.2
C15_Witness ==
    /\ op = "render" /\ Len(nodes) = 3 /\ nodes[3].level = 0
    /\ Len(nodes[3].children) = 2
    /\ RenderForest(nodes)[3].number = <<>>
    /\ RenderForest(nodes)[5].number = <<3, 2>>

\* C16: an undo or redo that takes effect keeps the number of content regions
\* and leaves in region i the i-th text of the entry at the new cursor, or the
\* empty text when that entry has no i-th text.
C16_RestoreByIndex ==
    [][ op' \in {"undo", "redo"} =>
          LET snapshot == history'[historyIndex' + 1]
          IN /\ Len(dom') = Len(dom)
             /\ \A i \in 1..Len(dom') :
                   dom'[i].html = IF i <= Len(snapshot) THEN snapshot[i] ELSE "" ]_vars

\* C16 witness: an undo went back to the empty snapshot of an earlier document
\* while two regions were shown, and emptied both
C16_Witness ==
    /\ op = "undo" /\ Len(dom) = 2 /\ history[historyIndex + 1] = <<>>
    /\ dom[1].html = "" /\ dom[2].html = ""

\* C17: whenever a document has been loaded, the mode is Edit and no debounce
\* timer is pending, the entry at the cursor is the sequence of the texts of
\* all content regions.
C17_HistoryMatchesContent ==
    (history # <<>> /\ ~rendering /\ ~debounceTimer /\ staleTimers = 0) =>
        history[historyIndex + 1] = Snapshot(dom)

\* C18: every content region is editable exactly when the mode is Edit.
C18_EditableIffEditMode ==
    \A i \in 1..Len(dom) : dom[i].editable <=> ~rendering

\* the entry at the cursor is the snapshot of the current content and no
\* timeout is pending
Captured ==
    /\ ~debounceTimer /\ staleTimers = 0
    /\ historyIndex >= 0
    /\ history[historyIndex + 1] = Snapshot(dom)

\* C19: after an edit (in a history the model still follows), the debounce
\* timer eventually expires and leaves the snapshot of the current content at
\* the cursor with no timeout pending, unless an undo or redo takes effect or a
\* load renders a document first.
C19_EditCaptured ==
    (op = "edit" /\ WithinBound(history, historyIndex, Snapshot(dom)))
        ~> (Captured \/ op \in {"undo", "redo", "loadOk", "loadParserAbsent"})

\* C19 witness: the timer has expired in Render mode, after the mode switch that
\* followed the edit, and the pushed entry is the current content
C19_Witness ==
    /\ op = "timerFire" /\ pushed = "append" /\ rendering
    /\ Captured

\* C20: when the only suspended load left was started before a load that has
\* already rendered its document, its completion leaves the rendered document
\* and the entry at the cursor those of the load started later.
C20_LastStartedWins ==
    [][ (/\ Len(loads) = 1 /\ loads[1]
         /\ Len(loads') = 0
         /\ op' \in {"loadReadError", "loadTooLarge", "loadParserAbsent",
                     "loadParserThrows", "loadOk"})
        => (/\ nodes' = nodes
            /\ Snapshot(dom') = Snapshot(dom)
            /\ history'[historyIndex' + 1] = history[historyIndex + 1]) ]_vars

====
